---- MODULE Spec2Model ----
(***************************************************************************)
(* Verification model of the XML parser adapters of the vMix module:       *)
(*   - RustWasmAdapter (src/xml/rustWasmAdapter.ts): the module load that  *)
(*     the constructor starts and the parse calls that await it;           *)
(*   - FastXmlParserAdapter.normalizeToXml2jsFormat (src/xml/fxpAdapter.ts)*)
(*     as a recursive operator over JSON-like trees;                       *)
(*   - the trees the xml2js and fast-xml-parser adapters hand on for one   *)
(*     document.                                                           *)
(***************************************************************************)
EXTENDS Integers, Sequences, FiniteSets, TLC

(***************************************************************************)
(* Bounds                                                                  *)
(***************************************************************************)
\* number of parse() calls made on the one adapter instance
NumCallers == 3

Callers == 1..NumCallers

\* number of nodes (scalars, nulls, sequences, mappings) of a tree handed to the normalizer
MaxNodes == 6

\* number of child elements of the root element of a parsed document
MaxChildren == 2

\* largest iterations argument of a benchmark run
MaxIterations == 3

\* largest elapsed time of one timed update, in milliseconds
MaxTime == 4

VARIABLES
  env,           \* what require() finds at each probed location
  lpc,           \* position of the one loadWasm() activation
  inCtor,        \* TRUE while the constructor's synchronous run is on the stack
  probed,        \* the locations require() was called for, in call order
  wasm,          \* this.wasm
  loadCount,     \* number of loadWasm() activations started so far
  loadPromise,   \* this.loadPromise: 0 is null, n > 0 the promise of activation n
  promiseState,  \* state of the promise loadWasm() returned
  promiseErr,    \* the Error that promise rejected with
  pc,            \* position of each parse() call
  seenAt,        \* state of the load promise when the call entered parse()
  awaited,       \* the promise the call suspended on (0: none)
  result         \* how each parse() call settled

VARIABLES
  tree,          \* the argument of normalizeToXml2jsFormat
  once,          \* its result
  twice,         \* the result of normalizing that result again
  npc            \* "input", "once", "twice": how far the normalizer was applied

VARIABLES
  doc,           \* the XML document handed to both adapters
  x2j,           \* what Xml2jsAdapter.parse resolved with
  fxp,           \* what FastXmlParserAdapter.parse resolved with
  ppc            \* the adapters that have parsed doc

VARIABLES
  iterations,    \* runBenchmark's iterations argument
  warm,          \* warmup updates done
  times,         \* the times array: one elapsed time (ms) per timed update
  bpc,           \* "warmup", "timing", "done"
  report         \* the BenchmarkResult returned

normVars == <<tree, once, twice, npc>>
benchVars == <<iterations, warm, times, bpc, report>>
parseVars == <<doc, x2j, fxp, ppc>>

adapterVars == <<env, lpc, inCtor, probed, wasm, loadCount, loadPromise,
                 promiseState, promiseErr, pc, seenAt, awaited, result>>

(***************************************************************************)
(* RustWasmAdapter: the environment of require()                           *)
(***************************************************************************)
\* require() threw for the location
Missing == [present |-> FALSE, truthy |-> FALSE, hasParse |-> FALSE, init |-> "none"]

\* this.wasm before any require() succeeded
NullModule == Missing

\* init: "none"    the module has no default() function
\*       "resolve" default() returns a promise that resolves
\*       "reject"  default() returns a promise that rejects
\*       "throw"   default() throws synchronously
InitModes == {"none", "resolve", "reject", "throw"}

\* a module whose exports are falsy has no properties to look at
Modules ==
  {[present |-> TRUE, truthy |-> TRUE, hasParse |-> p, init |-> i] :
      p \in BOOLEAN, i \in InitModes}
  \cup {[present |-> TRUE, truthy |-> FALSE, hasParse |-> FALSE, init |-> "none"]}

\* a faulty variant of ProbeOrder: the sibling wrapper first, as the parser benchmark does
ProbeOrderSiblingFirst == <<"sibling", "source", "dist">>

\* the order of the nested try blocks of loadWasm
ProbeOrder == <<"dist", "source", "sibling">>

Locations == {"dist", "source", "sibling"}

ErrNotFound == "Failed to load Rust WASM module: Cannot find module"
ErrInit == "Failed to load Rust WASM module: init failed"
ErrNoParse == "Rust WASM module does not export parse function"
ErrNotAvailable == "Rust WASM module is not available"
LoadErrors == {ErrNotFound, ErrInit, ErrNoParse}

\* this.wasm && typeof this.wasm.parse === 'function'
Usable(w) == w.truthy /\ w.hasParse

\* this.wasm && typeof this.wasm.default === 'function'
HasDefault(w) == w.truthy /\ w.init # "none"

(***************************************************************************)
(* RustWasmAdapter: loadWasm                                               *)
(***************************************************************************)
\* the promise of the running activation settles; when that happens inside the
\* constructor, the constructor then stores the promise in this.loadPromise
Settle(state, err) ==
  /\ promiseState' = state
  /\ promiseErr' = err
  /\ lpc' = "done"
  /\ inCtor' = FALSE
  /\ loadPromise' = IF inCtor THEN loadCount ELSE loadPromise

\* a faulty variant of AfterInit: the parse export is not checked
AfterInitNoCheck(w) == Settle("fulfilled", "none")

\* the statements after the try block: the parse export is checked
AfterInit(w) ==
  IF Usable(w) THEN Settle("fulfilled", "none") ELSE Settle("rejected", ErrNoParse)

\* new RustWasmAdapter(): the constructor calls loadWasm(), this.wasm is null
Construct ==
  /\ lpc = "new"
  /\ lpc' = "probing"
  /\ inCtor' = TRUE
  /\ loadCount' = loadCount + 1
  /\ promiseState' = "pending"
  /\ UNCHANGED <<env, probed, wasm, loadPromise, promiseErr, pc, seenAt, awaited, result>>
  /\ UNCHANGED <<normVars, parseVars, benchVars>>

\* one require() of the nested try blocks
Probe ==
  /\ lpc = "probing"
  /\ LET loc == ProbeOrder[Len(probed) + 1]
         found == env[loc]
     IN /\ probed' = Append(probed, loc)
        /\ IF found.present
             THEN /\ wasm' = found
                  /\ lpc' = "init"
                  /\ UNCHANGED <<inCtor, loadPromise, promiseState, promiseErr>>
             ELSE IF Len(probed) + 1 < Len(ProbeOrder)
               THEN UNCHANGED <<wasm, lpc, inCtor, loadPromise, promiseState, promiseErr>>
               ELSE /\ Settle("rejected", ErrNotFound)
                    /\ UNCHANGED wasm
  /\ UNCHANGED <<env, loadCount, pc, seenAt, awaited, result>>
  /\ UNCHANGED <<normVars, parseVars, benchVars>>

\* if (this.wasm && typeof this.wasm.default === 'function') await this.wasm.default()
InitCall(w) ==
  IF w.init = "throw"
    THEN Settle("rejected", ErrInit)
    ELSE /\ lpc' = "awaitInit"
         /\ inCtor' = FALSE
         /\ loadPromise' = loadCount
         /\ UNCHANGED <<promiseState, promiseErr>>

\* the initialisation statement, reached synchronously after a require() succeeded
InitStep ==
  /\ lpc = "init"
  /\ IF HasDefault(wasm) THEN InitCall(wasm) ELSE AfterInit(wasm)
  /\ UNCHANGED <<env, probed, wasm, loadCount, pc, seenAt, awaited, result>>
  /\ UNCHANGED <<normVars, parseVars, benchVars>>

\* a faulty variant of InitRejected: the catch block swallows the error
InitRejectedSwallowed(w) == AfterInit(w)

\* catch (error) { throw new Error(`Failed to load Rust WASM module: ...`) }
InitRejected(w) == Settle("rejected", ErrInit)

\* the promise default() returned settles and loadWasm resumes
InitSettle ==
  /\ lpc = "awaitInit"
  /\ IF wasm.init = "resolve" THEN AfterInit(wasm) ELSE InitRejected(wasm)
  /\ UNCHANGED <<env, probed, wasm, loadCount, pc, seenAt, awaited, result>>
  /\ UNCHANGED <<normVars, parseVars, benchVars>>

(***************************************************************************)
(* RustWasmAdapter: parse                                                  *)
(***************************************************************************)
\* a faulty variant of MustAwait: the call waits only while no module is assigned
MustAwaitNoModule(lp, w) == ~w.present

\* if (this.loadPromise)
MustAwait(lp, w) == lp # 0

\* the statements of parse after the await
Outcome(w) == IF Usable(w) THEN "parsed" ELSE ErrNotAvailable

\* a faulty variant of ParseCall: parse starts a load of its own while no module is usable
ParseCallReload(c) ==
  /\ pc[c] = "idle"
  /\ lpc # "new"
  /\ ~inCtor
  /\ seenAt' = [seenAt EXCEPT ![c] = promiseState]
  /\ IF ~Usable(wasm) \/ promiseState = "pending"
       THEN /\ loadCount' = loadCount + 1
            /\ loadPromise' = loadCount + 1
            /\ pc' = [pc EXCEPT ![c] = "awaiting"]
            /\ awaited' = [awaited EXCEPT ![c] = loadCount + 1]
            /\ UNCHANGED result
       ELSE /\ pc' = [pc EXCEPT ![c] = "done"]
            /\ result' = [result EXCEPT ![c] = Outcome(wasm)]
            /\ UNCHANGED <<awaited, loadCount, loadPromise>>
  /\ UNCHANGED <<env, lpc, inCtor, probed, wasm, promiseState, promiseErr>>
  /\ UNCHANGED <<normVars, parseVars, benchVars>>

\* a call of parse(xml) up to its first suspension, or to its end when it does not suspend
ParseCall(c) ==
  /\ pc[c] = "idle"
  /\ lpc # "new"
  /\ ~inCtor
  /\ seenAt' = [seenAt EXCEPT ![c] = promiseState]
  /\ IF MustAwait(loadPromise, wasm)
       THEN /\ pc' = [pc EXCEPT ![c] = "awaiting"]
            /\ awaited' = [awaited EXCEPT ![c] = loadPromise]
            /\ UNCHANGED result
       ELSE /\ pc' = [pc EXCEPT ![c] = "done"]
            /\ result' = [result EXCEPT ![c] = Outcome(wasm)]
            /\ UNCHANGED awaited
  /\ UNCHANGED <<env, lpc, inCtor, probed, wasm, loadCount, loadPromise,
                 promiseState, promiseErr>>
  /\ UNCHANGED <<normVars, parseVars, benchVars>>

\* a faulty variant of ResumeRejected: the pending-load field is cleared on failure too
ResumeRejectedCleared(c) ==
  /\ result' = [result EXCEPT ![c] = promiseErr]
  /\ loadPromise' = 0

\* await this.loadPromise throws: the call rejects, this.loadPromise is left as it is
ResumeRejected(c) ==
  /\ result' = [result EXCEPT ![c] = promiseErr]
  /\ UNCHANGED loadPromise

\* the call resumes after await this.loadPromise
ParseResume(c) ==
  /\ pc[c] = "awaiting"
  /\ promiseState # "pending"
  /\ pc' = [pc EXCEPT ![c] = "done"]
  /\ IF promiseState = "fulfilled"
       THEN /\ loadPromise' = 0
            /\ result' = [result EXCEPT ![c] = Outcome(wasm)]
       ELSE ResumeRejected(c)
  /\ UNCHANGED <<env, lpc, inCtor, probed, wasm, loadCount, promiseState, promiseErr,
                 seenAt, awaited>>
  /\ UNCHANGED <<normVars, parseVars, benchVars>>

(***************************************************************************)
(* JSON-like trees.  Every node is a record of one shape:                  *)
(*   kind  "null", "string", "number", "boolean", "seq" or "map"           *)
(*   s     the text of a scalar ("" otherwise)                             *)
(*   keys  the keys of a mapping, in Object.entries order (<<>> otherwise) *)
(*   items the elements of a sequence, or the values of a mapping's keys   *)
(***************************************************************************)
Null == [kind |-> "null", s |-> "", keys |-> <<>>, items |-> <<>>]
Str(x) == [kind |-> "string", s |-> x, keys |-> <<>>, items |-> <<>>]
Num(x) == [kind |-> "number", s |-> x, keys |-> <<>>, items |-> <<>>]
Bool(x) == [kind |-> "boolean", s |-> x, keys |-> <<>>, items |-> <<>>]
SeqOf(xs) == [kind |-> "seq", s |-> "", keys |-> <<>>, items |-> xs]
MapOf(ks, vs) == [kind |-> "map", s |-> "", keys |-> ks, items |-> vs]

\* key === '$'
AttrKey == "$"

(***************************************************************************)
(* FastXmlParserAdapter.normalizeToXml2jsFormat                            *)
(***************************************************************************)
RECURSIVE normalizeToXml2jsFormat(_)

\* a faulty variant of NormalizeValue: the attributes key is treated like any other key
NormalizeValueNoAttr(key, value) ==
  IF value.kind = "seq"
    THEN SeqOf([i \in 1..Len(value.items) |-> normalizeToXml2jsFormat(value.items[i])])
    ELSE IF value.kind = "map"
      THEN SeqOf(<<normalizeToXml2jsFormat(value)>>)
      ELSE SeqOf(<<value>>)

\* a faulty variant of NormalizeValue: the element-wise pass also wraps a null item
NormalizeValueNullItems(key, value) ==
  IF key = AttrKey
    THEN value
    ELSE IF value.kind = "seq"
      THEN SeqOf([i \in 1..Len(value.items) |->
                    IF value.items[i].kind = "null"
                      THEN SeqOf(<<value.items[i]>>)
                      ELSE normalizeToXml2jsFormat(value.items[i])])
      ELSE IF value.kind = "map"
        THEN SeqOf(<<normalizeToXml2jsFormat(value)>>)
        ELSE SeqOf(<<value>>)

\* the body of the loop over Object.entries(obj): the value stored under key
NormalizeValue(key, value) ==
  IF key = AttrKey
    THEN value
    ELSE IF value.kind = "seq"
      THEN SeqOf([i \in 1..Len(value.items) |-> normalizeToXml2jsFormat(value.items[i])])
      ELSE IF value.kind = "map"
        THEN SeqOf(<<normalizeToXml2jsFormat(value)>>)
        ELSE SeqOf(<<value>>)

normalizeToXml2jsFormat(obj) ==
  IF obj.kind = "null"
    THEN obj
    ELSE IF obj.kind = "seq"
      THEN SeqOf([i \in 1..Len(obj.items) |-> normalizeToXml2jsFormat(obj.items[i])])
      ELSE IF obj.kind = "map"
        THEN MapOf(obj.keys,
                   [i \in 1..Len(obj.keys) |-> NormalizeValue(obj.keys[i], obj.items[i])])
        ELSE SeqOf(<<obj>>)

(***************************************************************************)
(* The trees the normalizer is applied to: all trees of at most MaxNodes   *)
(* nodes over one scalar, null, sequences, and mappings over the keys '$'  *)
(* and 'k'.  A tree is built node by node, each node added as the last     *)
(* child of a sequence or mapping of the tree.                             *)
(***************************************************************************)
\* the trees of one node
Leaves == {Null, Str("a"), SeqOf(<<>>), MapOf(<<>>, <<>>)}

RECURSIVE Size(_)

\* the number of nodes of a tree
Size(t) ==
  LET sizes == [i \in 1..Len(t.items) |-> Size(t.items[i])]
      sum[i \in 0..Len(t.items)] == IF i = 0 THEN 0 ELSE sum[i - 1] + sizes[i]
  IN 1 + sum[Len(t.items)]

RECURSIVE ContainerPaths(_)

\* the paths (child indexes from the root) of the sequences and mappings of a tree
ContainerPaths(t) ==
  IF t.kind \in {"seq", "map"}
    THEN {<<>>} \cup UNION {{<<i>> \o q : q \in ContainerPaths(t.items[i])} :
                              i \in 1..Len(t.items)}
    ELSE {}

RECURSIVE NodeAt(_, _)

NodeAt(t, path) == IF path = <<>> THEN t ELSE NodeAt(t.items[Head(path)], Tail(path))

\* the keys a new entry of a mapping may take: '$' first, then 'k', each once
FreeKeys(t) ==
  IF t.kind = "seq" THEN {""}
  ELSE IF t.keys = <<>> THEN {AttrKey, "k"}
  ELSE IF t.keys = <<AttrKey>> THEN {"k"}
  ELSE {}

RECURSIVE AddChild(_, _, _, _)

\* the tree with one more child, under key, in the container at path
AddChild(t, path, key, node) ==
  IF path = <<>>
    THEN IF t.kind = "seq"
           THEN SeqOf(Append(t.items, node))
           ELSE MapOf(Append(t.keys, key), Append(t.items, node))
    ELSE [t EXCEPT !.items[Head(path)] = AddChild(@, Tail(path), key, node)]

\* one more node of the tree that will be handed to the normalizer
Grow ==
  /\ npc = "input"
  /\ Size(tree) < MaxNodes
  /\ \E path \in ContainerPaths(tree), node \in Leaves :
       \E key \in FreeKeys(NodeAt(tree, path)) :
         tree' = AddChild(tree, path, key, node)
  /\ UNCHANGED <<once, twice, npc>>
  /\ UNCHANGED <<adapterVars, parseVars, benchVars>>

\* const once = normalizeToXml2jsFormat(tree)
NormalizeFirst ==
  /\ npc = "input"
  /\ once' = normalizeToXml2jsFormat(tree)
  /\ npc' = "once"
  /\ UNCHANGED <<tree, twice>>
  /\ UNCHANGED <<adapterVars, parseVars, benchVars>>

\* const twice = normalizeToXml2jsFormat(once)
NormalizeSecond ==
  /\ npc = "once"
  /\ twice' = normalizeToXml2jsFormat(once)
  /\ npc' = "twice"
  /\ UNCHANGED <<tree, once>>
  /\ UNCHANGED <<adapterVars, parseVars, benchVars>>

(***************************************************************************)
(* The two library adapters on one document                                *)
(*   <vmix k="attr"><input>text</input>...</vmix>                          *)
(* doc.attr is the value of the root's attribute ("" when it has none),    *)
(* doc.children the texts of its input child elements.  The library        *)
(* parsers are modelled by what they return under the options the adapters *)
(* configure them with.                                                    *)
(***************************************************************************)
Texts == {"x", "true", "1"}

Docs ==
  {[attr |-> a, children |-> cs] :
     a \in Texts \cup {""},
     cs \in UNION {[1..n -> Texts] : n \in 1..MaxChildren}}

\* xml2js.processors.parseBooleans, the one value and attribute value processor
Xml2jsValue(t) == IF t \in {"true", "false"} THEN Bool(t) ELSE Str(t)

\* parser.parseStringPromise(xml) with the options of parserOptions: the root
\* element under its name, attributes under '$', every child name a sequence
Xml2jsParse(d) ==
  LET kids == SeqOf([i \in 1..Len(d.children) |-> Xml2jsValue(d.children[i])])
      root == IF d.attr = ""
                THEN MapOf(<<"input">>, <<kids>>)
                ELSE MapOf(<<AttrKey, "input">>,
                           <<MapOf(<<"k">>, <<Xml2jsValue(d.attr)>>), kids>>)
  IN MapOf(<<"vmix">>, <<root>>)

\* the value parsing of XMLParser with parseAttributeValue: true and the default
\* tag value parsing: booleans and numbers are typed
FxpValue(t) ==
  IF t \in {"true", "false"} THEN Bool(t)
  ELSE IF t \in {"1"} THEN Num(t)
  ELSE Str(t)

\* this.parser.parse(xml) with ignoreAttributes: false: attributes are keys of the
\* element with the '@_' prefix, a single child is a bare value, repeated children
\* a sequence
FxpParse(d) ==
  LET kids == IF Len(d.children) = 1
                THEN FxpValue(d.children[1])
                ELSE SeqOf([i \in 1..Len(d.children) |-> FxpValue(d.children[i])])
      root == IF d.attr = ""
                THEN MapOf(<<"input">>, <<kids>>)
                ELSE MapOf(<<"@_k", "input">>, <<FxpValue(d.attr), kids>>)
  IN MapOf(<<"vmix">>, <<root>>)

\* Xml2jsAdapter.parse(xml)
Xml2jsAdapterParse ==
  /\ "xml2js" \notin ppc
  /\ x2j' = Xml2jsParse(doc)
  /\ ppc' = ppc \cup {"xml2js"}
  /\ UNCHANGED <<doc, fxp>>
  /\ UNCHANGED <<adapterVars, normVars, benchVars>>

\* FastXmlParserAdapter.parse(xml): the parser's tree, then the normalization pass
FxpAdapterParse ==
  /\ "fast-xml-parser" \notin ppc
  /\ fxp' = normalizeToXml2jsFormat(FxpParse(doc))
  /\ ppc' = ppc \cup {"fast-xml-parser"}
  /\ UNCHANGED <<doc, x2j>>
  /\ UNCHANGED <<adapterVars, normVars, benchVars>>

(***************************************************************************)
(* runBenchmark: the timed loop and the statistics of its result.  Times   *)
(* are whole milliseconds; a quotient is kept as an exact fraction         *)
(* [num, den].                                                             *)
(***************************************************************************)
\* const warmupIterations = 10
WarmupIterations == 10

RECURSIVE SortAscending(_)

\* times.sort((a, b) => a - b)
SortAscending(xs) ==
  IF xs = <<>> THEN <<>>
  ELSE LET rest == SortAscending(Tail(xs))
           below == SelectSeq(rest, LAMBDA y : y < Head(xs))
           above == SelectSeq(rest, LAMBDA y : y >= Head(xs))
       IN below \o <<Head(xs)>> \o above

RECURSIVE SumOf(_)

\* times.reduce((a, b) => a + b, 0)
SumOf(xs) == IF xs = <<>> THEN 0 ELSE Head(xs) + SumOf(Tail(xs))

\* times[Math.floor(times.length * pct / 100)]
Percentile(sorted, pct) == sorted[((Len(sorted) * pct) \div 100) + 1]

\* const avg = total / times.length
Average(total, n) == [num |-> total, den |-> n]

\* const throughput = (1000 / avg) * iterations
Throughput(avg, iters) == [num |-> 1000 * avg.den * iters, den |-> avg.num]

NoReport ==
  [iterations |-> 0, total |-> 0, avg |-> [num |-> 0, den |-> 1], p50 |-> 0, p90 |-> 0,
   p99 |-> 0, max |-> 0, min |-> 0, throughput |-> [num |-> 0, den |-> 1]]

\* one update of the warmup loop
Warmup ==
  /\ bpc = "warmup"
  /\ IF warm + 1 < WarmupIterations
       THEN /\ warm' = warm + 1
            /\ bpc' = bpc
       ELSE /\ warm' = WarmupIterations
            /\ bpc' = "timing"
  /\ UNCHANGED <<iterations, times, report>>
  /\ UNCHANGED <<adapterVars, normVars, parseVars>>

\* one pass of the timed loop: t0, await data.update(xml), t1, times.push(t1 - t0)
TimedUpdate ==
  /\ bpc = "timing"
  /\ Len(times) < iterations
  /\ \E t \in 1..MaxTime : times' = Append(times, t)
  /\ UNCHANGED <<iterations, warm, bpc, report>>
  /\ UNCHANGED <<adapterVars, normVars, parseVars>>

\* the statements after the timed loop, up to the return
Report ==
  /\ bpc = "timing"
  /\ Len(times) = iterations
  /\ LET sorted == SortAscending(times)
         total == SumOf(sorted)
         avg == Average(total, Len(sorted))
     IN /\ times' = sorted
        /\ report' = [iterations |-> iterations, total |-> total, avg |-> avg,
                      p50 |-> Percentile(sorted, 50), p90 |-> Percentile(sorted, 90),
                      p99 |-> Percentile(sorted, 99), max |-> sorted[Len(sorted)],
                      min |-> sorted[1], throughput |-> Throughput(avg, iterations)]
  /\ bpc' = "done"
  /\ UNCHANGED <<iterations, warm>>
  /\ UNCHANGED <<adapterVars, normVars, parseVars>>

(***************************************************************************)
(* Specification of the adapter                                            *)
(***************************************************************************)
AdapterInit ==
  /\ lpc = "new"
  /\ inCtor = FALSE
  /\ probed = <<>>
  /\ wasm = NullModule
  /\ loadCount = 0
  /\ loadPromise = 0
  /\ promiseState = "none"
  /\ promiseErr = "none"
  /\ pc = [c \in Callers |-> "idle"]
  /\ seenAt = [c \in Callers |-> "none"]
  /\ awaited = [c \in Callers |-> 0]
  /\ result = [c \in Callers |-> "none"]

\* no tree has been handed to the normalizer
NormIdle ==
  /\ tree = Null
  /\ once = Null
  /\ twice = Null
  /\ npc = "input"

\* no document has been handed to the adapters
ParseIdle ==
  /\ doc = [attr |-> "", children |-> <<>>]
  /\ x2j = Null
  /\ fxp = Null
  /\ ppc = {}

\* no benchmark is running
BenchIdle ==
  /\ iterations = 0
  /\ warm = 0
  /\ times = <<>>
  /\ bpc = "warmup"
  /\ report = NoReport

vars == <<adapterVars, normVars, parseVars, benchVars>>

Init ==
  /\ env \in [Locations -> Modules \cup {Missing}]
  /\ AdapterInit
  /\ NormIdle
  /\ ParseIdle
  /\ BenchIdle

Next ==
  \/ Construct
  \/ Probe
  \/ InitStep
  \/ InitSettle
  \/ \E c \in Callers : ParseCall(c)
  \/ \E c \in Callers : ParseResume(c)

Spec == Init /\ [][Next]_vars

(***************************************************************************)
(* Specification of the normalizer                                         *)
(***************************************************************************)
NormInit ==
  /\ tree \in Leaves
  /\ once = Null
  /\ twice = Null
  /\ npc = "input"
  /\ env = [l \in Locations |-> Missing]
  /\ AdapterInit
  /\ ParseIdle
  /\ BenchIdle

NormNext ==
  \/ Grow
  \/ NormalizeFirst
  \/ NormalizeSecond

NormSpec == NormInit /\ [][NormNext]_vars

(***************************************************************************)
(* Specification of the two library adapters on one document               *)
(***************************************************************************)
ParseInit ==
  /\ doc \in Docs
  /\ x2j = Null
  /\ fxp = Null
  /\ ppc = {}
  /\ env = [l \in Locations |-> Missing]
  /\ AdapterInit
  /\ NormIdle
  /\ BenchIdle

ParseNext ==
  \/ Xml2jsAdapterParse
  \/ FxpAdapterParse

ParseSpec == ParseInit /\ [][ParseNext]_vars

(***************************************************************************)
(* Specification of a benchmark run                                        *)
(***************************************************************************)
BenchInit ==
  /\ iterations \in 1..MaxIterations
  /\ warm = 0
  /\ times = <<>>
  /\ bpc = "warmup"
  /\ report = NoReport
  /\ env = [l \in Locations |-> Missing]
  /\ AdapterInit
  /\ NormIdle
  /\ ParseIdle

BenchNext ==
  \/ Warmup
  \/ TimedUpdate
  \/ Report

BenchSpec == BenchInit /\ [][BenchNext]_vars

(***************************************************************************)
(* Properties of the adapter                                               *)
(***************************************************************************)
\* C1: loadWasm is started at most once for the instance, whatever parse calls are
\* made and whenever; every parse call that entered while the load was in flight
\* suspended on the promise of that one load, and the pending-load field never
\* holds any other promise.
C1_LoadStartedOnce ==
  /\ loadCount <= 1
  /\ loadPromise \in {0, 1}
  /\ \A c \in Callers : seenAt[c] = "pending" => awaited[c] = 1
  /\ \A c \in Callers : pc[c] = "awaiting" => awaited[c] = 1

\* two calls entered while the load was in flight and suspended on it, a third
\* entered after it settled and has finished, and one load was started
C1_Witness ==
  /\ loadCount = 1
  /\ \E a, b, c \in Callers :
       /\ a # b
       /\ seenAt[a] = "pending" /\ awaited[a] = 1
       /\ seenAt[b] = "pending" /\ awaited[b] = 1
       /\ seenAt[c] = "fulfilled" /\ pc[c] = "done"

\* C2: the module's parse function is invoked only once the load promise is
\* fulfilled, i.e. after default() resolved and the parse export was checked; while
\* the module is assigned and its initialisation is pending, every call that has
\* entered parse is suspended and has no result.
C2_NoParseBeforeLoaded ==
  /\ \A c \in Callers : result[c] = "parsed" => promiseState = "fulfilled"
  /\ lpc = "awaitInit" =>
       \A c \in Callers : pc[c] # "idle" => (pc[c] = "awaiting" /\ result[c] = "none")

\* a call that entered while default() was pending on an assigned module has
\* invoked the module's parse after the load resolved
C2_Witness ==
  \E c \in Callers :
    /\ seenAt[c] = "pending"
    /\ wasm.present /\ wasm.init = "resolve"
    /\ result[c] = "parsed"

\* C3: every settled parse call reports the outcome of the one load: the module's
\* parse when the load succeeded, the load's own error when it failed, for calls
\* that entered during the load and for calls that entered after it; and a failed
\* load is not attempted again.
C3_SameOutcome ==
  /\ loadCount <= 1
  /\ \A c \in Callers :
       result[c] # "none" =>
         \/ promiseState = "fulfilled" /\ result[c] = "parsed"
         \/ promiseState = "rejected" /\ result[c] = promiseErr /\ promiseErr \in LoadErrors

\* a call that entered during the load and two that entered after it failed have all
\* rejected with the load's error
C3_Witness ==
  /\ promiseState = "rejected"
  /\ \E a, b, c \in Callers :
       /\ b # c
       /\ seenAt[a] = "pending" /\ result[a] = promiseErr
       /\ seenAt[b] = "rejected" /\ result[b] = promiseErr
       /\ seenAt[c] = "rejected" /\ result[c] = promiseErr

\* C4 (as claimed): an adapter no parse call was ever made on has started no load:
\* no location probed, no initialisation started.
C4_LazyLoad ==
  (\A c \in Callers : pc[c] = "idle") =>
    (loadCount = 0 /\ probed = <<>> /\ lpc = "new")

\* the load cannot succeed: nothing was found at any location, or the module's
\* initialisation fails, or the module has no parse function
LoadFailure ==
  \/ lpc = "done" /\ ~wasm.present
  \/ wasm.present /\ (wasm.init \in {"reject", "throw"} \/ ~Usable(wasm))

\* C5: when no location can be loaded, or the initialisation throws or rejects, or
\* the module exports no parse function, no parse call returns a tree and every
\* settled parse call has rejected with an error.
C5_FailureReported ==
  LoadFailure =>
    \A c \in Callers :
      /\ result[c] # "parsed"
      /\ pc[c] = "done" => result[c] \in LoadErrors \cup {ErrNotAvailable}

\* each kind of failure has been reported to a call: here a module that does export
\* parse but whose initialisation failed
C5_Witness ==
  /\ wasm.present /\ Usable(wasm) /\ wasm.init \in {"reject", "throw"}
  /\ \E a, b \in Callers :
       /\ a # b
       /\ result[a] = ErrInit /\ seenAt[a] = "rejected"
       /\ result[b] = ErrInit

\* C6: the locations are probed in the order production, development, sibling; a
\* location is probed only after all earlier ones failed, none after one succeeded,
\* and the module in use is the one of the first location that could be loaded.
C6_ProbeOrder ==
  /\ probed = SubSeq(<<"dist", "source", "sibling">>, 1, Len(probed))
  /\ \A i \in 1..Len(probed) :
       env[probed[i]].present => (i = Len(probed) /\ wasm = env[probed[i]])
  /\ wasm.present => (probed # <<>> /\ wasm = env[probed[Len(probed)]])
  /\ lpc \in {"init", "awaitInit"} => wasm.present
  /\ (lpc = "done" /\ ~wasm.present) => Len(probed) = 3

\* the development location won after the production one failed, and the sibling
\* location, which could have been loaded too, was never probed
C6_Witness ==
  /\ lpc = "done"
  /\ probed = <<"dist", "source">>
  /\ wasm = env["source"]
  /\ env["sibling"].present
  /\ env["sibling"] # env["source"]

(***************************************************************************)
(* Properties of the normalizer                                            *)
(***************************************************************************)
\* C7 (as claimed): canonicalization is idempotent: normalizing the result of
\* normalizeToXml2jsFormat again yields that same result.
C7_Idempotent == npc = "twice" => twice = once

RECURSIVE ChildrenAreSequences(_)

\* in a mapping, and in every mapping reachable through its non-attribute keys, the
\* value of every key but '$' is a sequence whose elements are not sequences
ChildrenAreSequences(t) ==
  t.kind = "map" =>
    \A i \in 1..Len(t.keys) :
      t.keys[i] # AttrKey =>
        /\ t.items[i].kind = "seq"
        /\ \A j \in 1..Len(t.items[i].items) :
             /\ t.items[i].items[j].kind # "seq"
             /\ ChildrenAreSequences(t.items[i].items[j])

RECURSIVE ParserShaped(_)

\* a tree as a parser that collapses single children hands it over: the value of a
\* key is a scalar, null, a mapping, or a sequence of scalars or of mappings
ParserShaped(t) ==
  /\ t.kind # "seq"
  /\ t.kind = "map" =>
       \A i \in 1..Len(t.keys) :
         IF t.items[i].kind = "seq"
           THEN \A j \in 1..Len(t.items[i].items) : ParserShaped(t.items[i].items[j])
           ELSE ParserShaped(t.items[i])

\* C8 (as claimed): after canonicalization of a mapping whose children occur once
\* (scalar or mapping) or many times (sequence of scalars or mappings), the value of
\* every non-attribute key, at every depth, is a sequence of the children themselves,
\* never of further wrapping sequences.
C8_ChildrenAreSequences ==
  (npc # "input" /\ tree.kind = "map" /\ ParserShaped(tree)) => ChildrenAreSequences(once)

\* C10: for a mapping, normalizeToXml2jsFormat returns a mapping with the same keys;
\* '$' keeps the very value of the input; any other key holds the element-wise
\* normalization (same length, same order) of a sequence, a one-element sequence of
\* the normalized value for a mapping, a one-element sequence of the value itself
\* for a scalar.
C10_MappingCase ==
  (npc # "input" /\ tree.kind = "map") =>
    /\ once.kind = "map"
    /\ once.keys = tree.keys
    /\ Len(once.items) = Len(tree.items)
    /\ \A i \in 1..Len(tree.keys) :
         LET v == tree.items[i]
             r == once.items[i]
         IN IF tree.keys[i] = AttrKey THEN r = v
            ELSE /\ r.kind = "seq"
                 /\ IF v.kind = "seq"
                      THEN /\ Len(r.items) = Len(v.items)
                           /\ \A j \in 1..Len(v.items) :
                                r.items[j] = normalizeToXml2jsFormat(v.items[j])
                      ELSE IF v.kind = "map"
                        THEN r.items = <<normalizeToXml2jsFormat(v)>>
                        ELSE r.items = <<v>>

\* a mapping with a non-empty attributes mapping and a child sequence of a scalar
\* and a mapping has been normalized: '$' kept as it was, the scalar wrapped
C10_Witness ==
  /\ npc = "once"
  /\ tree.kind = "map"
  /\ tree.keys = <<AttrKey, "k">>
  /\ tree.items[1].kind = "map"
  /\ tree.items[1].keys = <<"k">>
  /\ tree.items[1].items[1].kind = "string"
  /\ tree.items[2].kind = "seq"
  /\ Len(tree.items[2].items) = 2
  /\ tree.items[2].items[1].kind = "string"
  /\ tree.items[2].items[2].kind = "map"
  /\ once.items[1] = tree.items[1]
  /\ once.items[2].items[1] = SeqOf(<<tree.items[2].items[1]>>)

(***************************************************************************)
(* Properties of the two library adapters                                  *)
(***************************************************************************)
\* C9 (as claimed): for one document, the tree FastXmlParserAdapter.parse returns
\* after its normalization pass equals the tree Xml2jsAdapter.parse returns.
C9_AdapterEquivalence == ppc = {"xml2js", "fast-xml-parser"} => fxp = x2j

(***************************************************************************)
(* Null values under the normalizer                                        *)
(***************************************************************************)
RECURSIVE NullsFollow(_, _, _)

\* r is the image of t as far as nulls go: a null input and a null element of a
\* sequence are themselves in r, at every depth; the null value of a key other
\* than '$' has the image underKey; the value of '$' is left as it is
NullsFollow(t, r, underKey) ==
  IF t.kind = "null" THEN r = t
  ELSE IF t.kind = "seq"
    THEN /\ r.kind = "seq"
         /\ Len(r.items) = Len(t.items)
         /\ \A i \in 1..Len(t.items) : NullsFollow(t.items[i], r.items[i], underKey)
  ELSE IF t.kind = "map"
    THEN /\ r.kind = "map"
         /\ Len(r.items) = Len(t.items)
         /\ \A i \in 1..Len(t.items) :
              LET v == t.items[i]
                  w == r.items[i]
              IN IF t.keys[i] = AttrKey THEN w = v
                 ELSE IF v.kind = "null" THEN w = underKey
                 ELSE IF v.kind = "seq" THEN NullsFollow(v, w, underKey)
                 ELSE IF v.kind = "map"
                   THEN /\ w.kind = "seq"
                        /\ Len(w.items) = 1
                        /\ NullsFollow(v, w.items[1], underKey)
                 ELSE TRUE
  ELSE TRUE

\* C11 (as claimed): canonicalization passes null through unchanged, never wrapped,
\* as the top-level input, as an element of a sequence, and as the value of a
\* non-attributes mapping key.
C11_NullNeverWrapped == npc # "input" => NullsFollow(tree, once, Null)

\* C11 (amended): null passes through unchanged as the top-level input and as an
\* element of a sequence, at every depth; as the value of a non-attributes mapping
\* key it is wrapped in a one-element sequence, like a scalar.
C11_NullUnderKeyWrapped == npc # "input" => NullsFollow(tree, once, SeqOf(<<Null>>))

\* a sequence of a null and of a mapping whose key holds a null has been
\* normalized: the element is kept, the value of the key is wrapped
C11_Witness ==
  /\ npc = "once"
  /\ tree.kind = "seq"
  /\ Len(tree.items) = 2
  /\ tree.items[1] = Null
  /\ tree.items[2].kind = "map"
  /\ tree.items[2].keys = <<"k">>
  /\ tree.items[2].items[1] = Null
  /\ once.items[1] = Null
  /\ once.items[2].items[1] = SeqOf(<<Null>>)

(***************************************************************************)
(* Properties of the benchmark                                             *)
(***************************************************************************)
\* C12 (as claimed): the reported throughput is operations per second: the number
\* of timed updates divided by their total elapsed time in seconds, that is
\* throughput * total = 1000 * iterations with total in milliseconds.
C12_ThroughputIsOpsPerSecond ==
  bpc = "done" =>
    report.throughput.num * report.total = 1000 * report.iterations * report.throughput.den

(***************************************************************************)
(* Further properties of the adapter                                       *)
(***************************************************************************)
\* C13: in every state of a constructed adapter, a null pending-load field means
\* that the load succeeded: the module is assigned and exports a parse function;
\* hence no parse call fails with 'Rust WASM module is not available'.
C13_NullPromiseMeansLoaded ==
  /\ (lpc # "new" /\ ~inCtor /\ loadPromise = 0) =>
       (wasm.present /\ Usable(wasm) /\ promiseState = "fulfilled")
  /\ \A c \in Callers : result[c] # ErrNotAvailable

\* the pending-load field was cleared by a first call, and a later call, which
\* found it null and did not suspend, passed the availability check
C13_Witness ==
  /\ loadPromise = 0
  /\ lpc = "done"
  /\ \E a, b \in Callers :
       /\ awaited[a] = 1 /\ result[a] = "parsed"
       /\ pc[b] = "done" /\ awaited[b] = 0 /\ result[b] = "parsed"

\* C14 (as claimed): whenever the load promise rejects, at that moment at least one
\* parse call is awaiting it.
C14_RejectionHasWaiter ==
  [][(promiseState # "rejected" /\ promiseState' = "rejected") =>
       \E c \in Callers : pc[c] = "awaiting" /\ awaited[c] = loadCount]_vars

====
